---- MODULE Spec2Model ----
(***************************************************************************)
(* Model of the terraswap mock contract of cw_terra_test_mocks             *)
(* (packages/cw_terra_test_mocks/src/terraswap_mock.rs): the BALANCES      *)
(* ledger, the process-wide TOKEN_ADDR value, and the instantiate,         *)
(* execute and query entry points of contract_terraswap_mock.              *)
(*                                                                         *)
(* Representation.  A Binary that carries free text (the payload of        *)
(* Receive and Send, the data of a Response) is the sequence of its        *)
(* characters, so that JSON quoting and escaping are computed.  A Binary   *)
(* that carries a fixed structure (a query response, the envelope built   *)
(* by Send) is the JSON document itself, wrapped in [json |-> ...]; a      *)
(* Uint128 inside such a document is its decimal string, as serde writes   *)
(* it.  An Option is a set with at most one element.                       *)
(***************************************************************************)
EXTENDS Integers, Sequences, FiniteSets, TLC

(* ------------------------------ bounds --------------------------------- *)

\* Largest value of the scaled-down Uint128 (stands for u128::MAX).
MaxU128 == 3

\* Longest PingMsg payload string that is enumerated.
MaxLen == 2

(* ------------------------------ inputs --------------------------------- *)

\* Addresses the host's addr_validate accepts, and strings it rejects.
ValidAddrs == {"addr0000", "addr0001"}
InvalidAddrs == {"x"}
Humans == ValidAddrs \cup InvalidAddrs

Amounts == 0..MaxU128

\* Values handed to set_liq_token_addr.
TokenAddrs == {"string", "addr1", "addr2"}

DQ == "\""
BS == "\\"
\* Characters of payload strings: a plain one and the two that JSON must
\* escape to keep a string delimited.
Chars == {"a", DQ, BS}

Strs == UNION {[1..n -> Chars] : n \in 0..MaxLen}

(* ------------------------- JSON text (serde) --------------------------- *)

escape_char(c) ==
    IF c = DQ THEN <<BS, DQ>>
    ELSE IF c = BS THEN <<BS, BS>>
    ELSE <<c>>

RECURSIVE escape_str(_)
escape_str(s) ==
    IF s = <<>> THEN <<>> ELSE escape_char(Head(s)) \o escape_str(Tail(s))

\* to_binary(&String): the quoted, escaped JSON string.
to_binary_String(s) == <<DQ>> \o escape_str(s) \o <<DQ>>

\* Reads a JSON string body up to its closing quote; b starts after the
\* opening quote.  ok is FALSE on end of input or an unknown escape.
RECURSIVE parse_str(_, _)
parse_str(b, acc) ==
    IF b = <<>> THEN [ok |-> FALSE, val |-> <<>>, rest |-> <<>>]
    ELSE IF Head(b) = DQ THEN [ok |-> TRUE, val |-> acc, rest |-> Tail(b)]
    ELSE IF Head(b) = BS THEN
        IF Len(b) < 2 THEN [ok |-> FALSE, val |-> <<>>, rest |-> <<>>]
        ELSE IF b[2] = DQ THEN parse_str(Tail(Tail(b)), Append(acc, DQ))
        ELSE IF b[2] = BS THEN parse_str(Tail(Tail(b)), Append(acc, BS))
        ELSE [ok |-> FALSE, val |-> <<>>, rest |-> <<>>]
    ELSE parse_str(Tail(b), Append(acc, Head(b)))

\* from_binary::<String>
from_binary_String(b) ==
    IF b # <<>> /\ Head(b) = DQ
    THEN LET r == parse_str(Tail(b), <<>>)
         IN  IF r.ok /\ r.rest = <<>>
             THEN [ok |-> TRUE, val |-> r.val]
             ELSE [ok |-> FALSE, val |-> <<>>]
    ELSE [ok |-> FALSE, val |-> <<>>]

\* {"payload":
PingKey == <<"{", DQ, "p", "a", "y", "l", "o", "a", "d", DQ, ":">>

\* to_binary(&PingMsg { payload })
to_binary_PingMsg(p) == PingKey \o to_binary_String(p.payload) \o <<"}">>

\* from_binary::<PingMsg>
from_binary_PingMsg(b) ==
    IF Len(b) > Len(PingKey) /\ SubSeq(b, 1, Len(PingKey)) = PingKey
       /\ b[Len(PingKey) + 1] = DQ
    THEN LET r == parse_str(SubSeq(b, Len(PingKey) + 2, Len(b)), <<>>)
         IN  IF r.ok /\ r.rest = <<"}">>
             THEN [ok |-> TRUE, payload |-> r.val]
             ELSE [ok |-> FALSE, payload |-> <<>>]
    ELSE [ok |-> FALSE, payload |-> <<>>]

\* Binaries that do not decode as a PingMsg: empty input, null, a bare
\* string, an unterminated string, an unknown escape, trailing input, a
\* number where the string is expected.
BadBinaries ==
    { <<>>,
      <<"n", "u", "l", "l">>,
      to_binary_String(<<"a">>),
      PingKey \o <<DQ, "a">>,
      PingKey \o <<DQ, BS, "a", DQ, "}">>,
      PingKey \o <<DQ, "a", DQ, "}", "}">>,
      PingKey \o <<"5", "}">> }

PingBinaries == {to_binary_PingMsg([payload |-> s]) : s \in Strs}

Binaries == PingBinaries \cup BadBinaries

(* ------------------------------ results -------------------------------- *)

None == {}
Some(x) == {x}

\* Response::new() / Response::default()
Response_new == [attributes |-> <<>>, messages |-> <<>>, data |-> None]

add_attribute(r, k, v) ==
    [r EXCEPT !.attributes = Append(@, [key |-> k, value |-> v])]

add_message(r, m) == [r EXCEPT !.messages = Append(@, m)]

set_data(r, d) == [r EXCEPT !.data = Some(d)]

Ok(r) == [kind |-> "ok", response |-> r]
Err(e) == [kind |-> "err", error |-> e]
Panic == [kind |-> "panic"]

(* ------------------------------- ledger -------------------------------- *)

\* Map::may_load followed by Option::unwrap_or_default
unwrap_or_default(balances, a) ==
    IF a \in DOMAIN balances THEN balances[a] ELSE 0

\* Map::save
save(balances, a, v) ==
    [k \in DOMAIN balances \cup {a} |-> IF k = a THEN v ELSE balances[k]]

\* Api::addr_validate
addr_validate(human) ==
    IF human \in ValidAddrs
    THEN [ok |-> TRUE, addr |-> human]
    ELSE [ok |-> FALSE, addr |-> human]

(* ----------------------------- fixtures -------------------------------- *)

\* to_binary of a structure: its JSON document.
to_binary(v) == [json |-> v]

\* The unit value (), which serde writes as null.
Unit == [null |-> TRUE]

native_token(d) == [native_token |-> [denom |-> d]]

mock_balance_info == [balance |-> "10"]

\* Mutation: the placeholder is returned whatever the stored value.
get_liq_token_addr_placeholder(token_addr) == "string"

get_liq_token_addr(token_addr) == token_addr

\* Result of the mutation that drops the assignment *addr = new_addr.
set_liq_token_addr_no_write(token_addr, new_addr) ==
    [TOKEN_ADDR |-> token_addr, ret |-> token_addr]

\* Takes the write lock, overwrites the value, returns a copy of it.
set_liq_token_addr(token_addr, new_addr) ==
    [TOKEN_ADDR |-> new_addr, ret |-> new_addr]

mock_pair_info(token_addr) ==
    [asset_infos |-> <<native_token("uusd"), native_token("uusd")>>,
     contract_addr |-> "pair0000",
     liquidity_token |-> get_liq_token_addr(token_addr)]

\* The PoolResponse literal that mock_pool_info builds.
PoolResponse ==
    [assets |-> << [amount |-> "10000", info |-> native_token("token")],
                   [amount |-> "10000", info |-> native_token("uusd")] >>,
     total_share |-> "1000"]

\* mock_pool_info has no return type and its body is a statement ending in
\* ';': the encoded PoolResponse is computed and dropped, the value is ().
mock_pool_info ==
    LET encoded == to_binary(PoolResponse)
    IN  Unit

mock_token_info ==
    [name |-> "MyToken", symbol |-> "TOKEN", decimals |-> 6,
     total_supply |-> "100000000000000"]

(* ------------------------------ execute -------------------------------- *)

\* Cw20ReceiveMsg::into_cosmos_msg(contract)
into_cosmos_msg(receive_msg, contract) ==
    [wasm |-> [execute |->
        [contract_addr |-> contract,
         msg |-> to_binary([receive |->
                    [sender |-> receive_msg.sender,
                     amount |-> ToString(receive_msg.amount),
                     msg |-> receive_msg.msg]]),
         funds |-> <<>>]]]

\* Mutation: the raw message is echoed back instead of the decoded payload.
execute_receive_echo(balances, info, m) ==
    LET received == from_binary_PingMsg(m.msg)
    IN  IF ~received.ok
        THEN [res |-> Err("DecodeError"), balances |-> balances]
        ELSE [res |-> Ok(set_data(add_attribute(Response_new, "action", "pong"),
                                  m.msg)),
              balances |-> balances]

\* Mutation: a payload that does not decode is answered with a pong.
execute_receive_lenient(balances, info, m) ==
    LET received == from_binary_PingMsg(m.msg)
    IN  [res |-> Ok(set_data(add_attribute(Response_new, "action", "pong"),
                             to_binary_String(received.payload))),
         balances |-> balances]

execute_receive(balances, info, m) ==
    LET received == from_binary_PingMsg(m.msg)
    IN  IF ~received.ok
        THEN [res |-> Err("DecodeError"), balances |-> balances]
        ELSE [res |-> Ok(set_data(add_attribute(Response_new, "action", "pong"),
                                  to_binary_String(received.payload))),
              balances |-> balances]

\* Mutation: Mint credits the recipient.
execute_mint_credit(balances, info, m) ==
    [res |-> Ok(Response_new),
     balances |-> IF m.recipient \in ValidAddrs
                     /\ unwrap_or_default(balances, m.recipient) + m.amount
                            <= MaxU128
                  THEN save(balances, m.recipient,
                            unwrap_or_default(balances, m.recipient) + m.amount)
                  ELSE balances]

execute_mint(balances, info, m) ==
    [res |-> Ok(Response_new), balances |-> balances]

\* Mutation: the envelope names the target contract as the sender.
execute_send_wrong_sender(balances, info, m) ==
    [res |-> Ok(add_message(Response_new,
                    into_cosmos_msg([sender |-> m.contract, amount |-> m.amount,
                                     msg |-> m.msg], m.contract))),
     balances |-> balances]

execute_send(balances, info, m) ==
    [res |-> Ok(add_message(Response_new,
                    into_cosmos_msg([sender |-> info.sender, amount |-> m.amount,
                                     msg |-> m.msg], m.contract))),
     balances |-> balances]

\* Mutation: Burn debits the caller when it holds enough.
execute_burn_debit(balances, info, m) ==
    [res |-> Ok(Response_new),
     balances |-> IF info.sender \in DOMAIN balances
                     /\ balances[info.sender] >= m.amount
                  THEN save(balances, info.sender,
                            balances[info.sender] - m.amount)
                  ELSE balances]

execute_burn(balances, info, m) ==
    [res |-> Ok(Response_new), balances |-> balances]

\* Mutation: the from and to attributes are added in the other order.
transfer_response_swapped(info, m) ==
    add_attribute(add_attribute(add_attribute(add_attribute(Response_new,
        "action", "transfer"), "to", m.recipient), "from", info.sender),
        "amount", ToString(m.amount))

transfer_response(info, m) ==
    add_attribute(add_attribute(add_attribute(add_attribute(Response_new,
        "action", "transfer"), "from", info.sender), "to", m.recipient),
        "amount", ToString(m.amount))

\* Mutation: the new balance is the amount, not the old balance plus it.
execute_transfer_overwrite(balances, info, m) ==
    LET rcpt_addr == addr_validate(m.recipient)
    IN  IF ~rcpt_addr.ok
        THEN [res |-> Err("InvalidAddress"), balances |-> balances]
        ELSE IF unwrap_or_default(balances, rcpt_addr.addr) + m.amount > MaxU128
        THEN [res |-> Panic, balances |-> balances]
        ELSE [res |-> Ok(transfer_response(info, m)),
              balances |-> save(balances, rcpt_addr.addr, m.amount)]

\* Mutation: the recipient is credited before it is validated.
execute_transfer_unvalidated(balances, info, m) ==
    LET rcpt_addr == addr_validate(m.recipient)
        sum == unwrap_or_default(balances, m.recipient) + m.amount
    IN  IF sum > MaxU128
        THEN [res |-> Panic, balances |-> balances]
        ELSE IF ~rcpt_addr.ok
        THEN [res |-> Err("InvalidAddress"),
              balances |-> save(balances, m.recipient, sum)]
        ELSE [res |-> Ok(transfer_response(info, m)),
              balances |-> save(balances, m.recipient, sum)]

\* Mutation: the caller is debited when it holds enough.
execute_transfer_debit(balances, info, m) ==
    LET rcpt_addr == addr_validate(m.recipient)
        debited == IF unwrap_or_default(balances, info.sender) >= m.amount
                   THEN save(balances, info.sender,
                             unwrap_or_default(balances, info.sender) - m.amount)
                   ELSE balances
        sum == unwrap_or_default(debited, rcpt_addr.addr) + m.amount
    IN  IF ~rcpt_addr.ok
        THEN [res |-> Err("InvalidAddress"), balances |-> balances]
        ELSE IF sum > MaxU128
        THEN [res |-> Panic, balances |-> balances]
        ELSE [res |-> Ok(transfer_response(info, m)),
              balances |-> save(debited, rcpt_addr.addr, sum)]

\* Mutation: the addition wraps around instead of panicking.
execute_transfer_wrapping(balances, info, m) ==
    LET rcpt_addr == addr_validate(m.recipient)
        sum == unwrap_or_default(balances, rcpt_addr.addr) + m.amount
    IN  IF ~rcpt_addr.ok
        THEN [res |-> Err("InvalidAddress"), balances |-> balances]
        ELSE [res |-> Ok(transfer_response(info, m)),
              balances |-> save(balances, rcpt_addr.addr,
                                sum % (MaxU128 + 1))]

\* Uint128 + Uint128 is a checked addition that panics on overflow; the
\* panic happens inside the update closure, before anything is saved.
execute_transfer(balances, info, m) ==
    LET rcpt_addr == addr_validate(m.recipient)
        sum == unwrap_or_default(balances, rcpt_addr.addr) + m.amount
    IN  IF ~rcpt_addr.ok
        THEN [res |-> Err("InvalidAddress"), balances |-> balances]
        ELSE IF sum > MaxU128
        THEN [res |-> Panic, balances |-> balances]
        ELSE [res |-> Ok(transfer_response(info, m)),
              balances |-> save(balances, rcpt_addr.addr, sum)]

\* The execute closure: one match over the message variant.
execute(balances, info, m) ==
    CASE m.type = "receive"  -> execute_receive(balances, info, m)
      [] m.type = "mint"     -> execute_mint(balances, info, m)
      [] m.type = "send"     -> execute_send(balances, info, m)
      [] m.type = "burn"     -> execute_burn(balances, info, m)
      [] m.type = "transfer" -> execute_transfer(balances, info, m)

\* Mutation: instantiate starts from an empty ledger.
instantiate_reset(balances, info, m) ==
    [res |-> Ok(Response_new), balances |-> [a \in {} |-> 0]]

\* The instantiate closure.
instantiate(balances, info, m) ==
    [res |-> Ok(Response_new), balances |-> balances]

(* ------------------------------- query --------------------------------- *)

\* Mutation: Balance answers from the ledger.
query_from_ledger(balances, token_addr, m) ==
    CASE m.type = "pair"       -> to_binary(mock_pair_info(token_addr))
      [] m.type = "pool"       -> to_binary(mock_pool_info)
      [] m.type = "token_info" -> to_binary(mock_token_info)
      [] m.type = "balance"    ->
            to_binary([balance |->
                ToString(unwrap_or_default(balances, m.address))])

\* Mutation: TokenInfo reports the number of ledger entries as the total
\* supply once the ledger has entries.
query_supply_from_ledger(balances, token_addr, m) ==
    CASE m.type = "pair"       -> to_binary(mock_pair_info(token_addr))
      [] m.type = "pool"       -> to_binary(mock_pool_info)
      [] m.type = "token_info" ->
            to_binary([mock_token_info EXCEPT !.total_supply =
                IF DOMAIN balances = {} THEN @
                ELSE ToString(Cardinality(DOMAIN balances))])
      [] m.type = "balance"    -> to_binary(mock_balance_info)

\* The query closure; deps and env are ignored.
query(balances, token_addr, m) ==
    CASE m.type = "pair"       -> to_binary(mock_pair_info(token_addr))
      [] m.type = "pool"       -> to_binary(mock_pool_info)
      [] m.type = "token_info" -> to_binary(mock_token_info)
      [] m.type = "balance"    -> to_binary(mock_balance_info)

(* ----------------------------- messages -------------------------------- *)

ReceiveMsgs ==
    {[type |-> "receive", sender |-> "addr0000", amount |-> 0, msg |-> b] :
        b \in Binaries}
    \cup {[type |-> "receive", sender |-> "x", amount |-> MaxU128, msg |-> b] :
        b \in Binaries}

MintMsgs ==
    {[type |-> "mint", recipient |-> r, amount |-> n] :
        r \in Humans, n \in Amounts}

SendMsgs ==
    {[type |-> "send", contract |-> c, amount |-> n, msg |-> b] :
        c \in Humans, n \in {0, MaxU128},
        b \in {to_binary_PingMsg([payload |-> <<"a">>]), <<>>}}

BurnMsgs == {[type |-> "burn", amount |-> n] : n \in Amounts}

TransferMsgs ==
    {[type |-> "transfer", recipient |-> r, amount |-> n] :
        r \in Humans, n \in Amounts}

MockExecuteMsg ==
    ReceiveMsgs \cup MintMsgs \cup SendMsgs \cup BurnMsgs \cup TransferMsgs

MockQueryMsg ==
    {[type |-> "pair"], [type |-> "pool"], [type |-> "token_info"]}
    \cup {[type |-> "balance", address |-> a] : a \in Humans}

(* ------------------------------- state --------------------------------- *)

VARIABLES
    balances,     \* BALANCES: the stored entries, address -> Uint128
    TOKEN_ADDR,   \* the process-wide liquidity token address
    call,         \* the call that ran last
    result,       \* what that call returned
    before,       \* history: balances and TOKEN_ADDR when that call started
    credited,     \* history: per address, sum of the successful Transfers
    last_set,     \* history: argument of the last set_liq_token_addr, if any
    recipients    \* history: recipients named by the successful Transfers

vars ==
    <<balances, TOKEN_ADDR, call, result, before, credited, last_set,
      recipients>>

Snapshot == [balances |-> balances, TOKEN_ADDR |-> TOKEN_ADDR]

\* State of the threaded view of TOKEN_ADDR: the RwLock and the String it
\* guards.  The String is two cells that are written and read one after the
\* other, so a value put together from two different writes can be told
\* from a whole one.
VARIABLES
    lock,         \* RwLock: the thread holding write(), the threads holding read()
    cells,        \* the guarded String, <<first half, second half>>
    pc,           \* per thread, where it stands in its call
    op,           \* per thread, the call it is in and its argument
    buf,          \* per thread, the halves it has copied so far
    done,         \* per thread, the call it completed last and its result
    issued        \* history: arguments of the set calls started so far

cvars == <<lock, cells, pc, op, buf, done, issued>>

Threads == {"t1", "t2", "t3"}

\* Values the threads hand to set_liq_token_addr.
SetArgs == {"addr1", "addr2"}

\* A String value laid out in the two cells.
whole(v) == <<v, v>>

InitThreads ==
    /\ lock = [writer |-> {}, readers |-> {}]
    /\ cells = whole("string")
    /\ pc = [t \in Threads |-> "idle"]
    /\ op = [t \in Threads |-> [name |-> "none"]]
    /\ buf = [t \in Threads |-> whole("")]
    /\ done = [t \in Threads |-> [name |-> "none"]]
    /\ issued = {}

Init ==
    /\ balances = [a \in {} |-> 0]
    /\ TOKEN_ADDR = "string"
    /\ call = [op |-> "none"]
    /\ result = [kind |-> "none"]
    /\ before = [balances |-> [a \in {} |-> 0], TOKEN_ADDR |-> "string"]
    /\ credited = [a \in ValidAddrs |-> 0]
    /\ last_set = None
    /\ recipients = {}
    /\ InitThreads

Instantiate ==
    \E sender \in ValidAddrs :
        LET out == instantiate(balances, [sender |-> sender], [type |-> "init"])
        IN  /\ call' = [op |-> "instantiate", sender |-> sender]
            /\ result' = out.res
            /\ before' = Snapshot
            /\ balances' = out.balances
            /\ UNCHANGED <<TOKEN_ADDR, credited, last_set, recipients>>
            /\ UNCHANGED cvars

Execute ==
    \E sender \in ValidAddrs, m \in MockExecuteMsg :
        LET out == execute(balances, [sender |-> sender], m)
        IN  /\ call' = [op |-> "execute", sender |-> sender, msg |-> m]
            /\ result' = out.res
            /\ before' = Snapshot
            /\ balances' = out.balances
            /\ credited' =
                 IF m.type = "transfer" /\ out.res.kind = "ok"
                 THEN [credited EXCEPT ![m.recipient] = @ + m.amount]
                 ELSE credited
            /\ recipients' =
                 IF m.type = "transfer" /\ out.res.kind = "ok"
                 THEN recipients \cup {m.recipient}
                 ELSE recipients
            /\ UNCHANGED <<TOKEN_ADDR, last_set>>
            /\ UNCHANGED cvars

Query ==
    \E m \in MockQueryMsg :
        /\ call' = [op |-> "query", msg |-> m]
        /\ result' = [kind |-> "ok", binary |-> query(balances, TOKEN_ADDR, m)]
        /\ before' = Snapshot
        /\ UNCHANGED <<balances, TOKEN_ADDR, credited, last_set, recipients>>
        /\ UNCHANGED cvars

SetLiqTokenAddr ==
    \E new_addr \in TokenAddrs :
        LET out == set_liq_token_addr(TOKEN_ADDR, new_addr)
        IN  /\ call' = [op |-> "set", new_addr |-> new_addr]
            /\ result' = [kind |-> "ok", ret |-> out.ret]
            /\ before' = Snapshot
            /\ TOKEN_ADDR' = out.TOKEN_ADDR
            /\ last_set' = Some(new_addr)
            /\ UNCHANGED <<balances, credited, recipients>>
            /\ UNCHANGED cvars

GetLiqTokenAddr ==
    /\ call' = [op |-> "get"]
    /\ result' = [kind |-> "ok", ret |-> get_liq_token_addr(TOKEN_ADDR)]
    /\ before' = Snapshot
    /\ UNCHANGED <<balances, TOKEN_ADDR, credited, last_set, recipients>>
    /\ UNCHANGED cvars

Next ==
    \/ Instantiate
    \/ Execute
    \/ Query
    \/ SetLiqTokenAddr
    \/ GetLiqTokenAddr

Spec == Init /\ [][Next]_<<vars, cvars>>

(* ------------------- TOKEN_ADDR under several threads ------------------ *)

\* Mutation: write() is granted while readers hold the lock.
write_ignoring_readers(l) == l.writer = {}

\* RwLock::write is granted when nobody holds the lock.
write(l) == l.writer = {} /\ l.readers = {}

\* RwLock::read is granted when no writer holds the lock.
read(l) == l.writer = {}

\* set_liq_token_addr: TOKEN_ADDR.write().unwrap()
SetLock(t, v) ==
    /\ pc[t] = "idle"
    /\ write(lock)
    /\ lock' = [lock EXCEPT !.writer = {t}]
    /\ op' = [op EXCEPT ![t] = [name |-> "set", new_addr |-> v]]
    /\ issued' = issued \cup {v}
    /\ pc' = [pc EXCEPT ![t] = "set_store1"]
    /\ UNCHANGED <<cells, buf, done>>

\* *addr = new_addr, first half
SetStore1(t) ==
    /\ pc[t] = "set_store1"
    /\ cells' = [cells EXCEPT ![1] = op[t].new_addr]
    /\ pc' = [pc EXCEPT ![t] = "set_store2"]
    /\ UNCHANGED <<lock, op, buf, done, issued>>

\* *addr = new_addr, second half
SetStore2(t) ==
    /\ pc[t] = "set_store2"
    /\ cells' = [cells EXCEPT ![2] = op[t].new_addr]
    /\ pc' = [pc EXCEPT ![t] = "set_copy1"]
    /\ UNCHANGED <<lock, op, buf, done, issued>>

\* addr.to_string() and get's .to_string(): copy of the first half
Copy1(t) ==
    /\ pc[t] \in {"set_copy1", "read_copy1"}
    /\ buf' = [buf EXCEPT ![t] = <<cells[1], @[2]>>]
    /\ pc' = [pc EXCEPT ![t] =
                 IF pc[t] = "set_copy1" THEN "set_copy2" ELSE "read_copy2"]
    /\ UNCHANGED <<lock, cells, op, done, issued>>

\* copy of the second half
Copy2(t) ==
    /\ pc[t] \in {"set_copy2", "read_copy2"}
    /\ buf' = [buf EXCEPT ![t] = <<@[1], cells[2]>>]
    /\ pc' = [pc EXCEPT ![t] =
                 IF pc[t] = "set_copy2" THEN "set_return" ELSE "read_return"]
    /\ UNCHANGED <<lock, cells, op, done, issued>>

\* return addr.to_string(): the write guard is dropped
SetReturn(t) ==
    /\ pc[t] = "set_return"
    /\ lock' = [lock EXCEPT !.writer = {}]
    /\ done' = [done EXCEPT ![t] =
                   [name |-> "set", new_addr |-> op[t].new_addr,
                    ret |-> buf[t]]]
    /\ pc' = [pc EXCEPT ![t] = "idle"]
    /\ UNCHANGED <<cells, op, buf, issued>>

\* get_liq_token_addr, called directly ("get") or by mock_pair_info
\* ("pair"): TOKEN_ADDR.read().unwrap()
ReadLock(t, name) ==
    /\ pc[t] = "idle"
    /\ read(lock)
    /\ lock' = [lock EXCEPT !.readers = @ \cup {t}]
    /\ op' = [op EXCEPT ![t] = [name |-> name]]
    /\ pc' = [pc EXCEPT ![t] = "read_copy1"]
    /\ UNCHANGED <<cells, buf, done, issued>>

\* return of get_liq_token_addr: the read guard is dropped; for a Pair
\* query the copy becomes the liquidity_token of mock_pair_info
ReadReturn(t) ==
    /\ pc[t] = "read_return"
    /\ lock' = [lock EXCEPT !.readers = @ \ {t}]
    /\ done' = [done EXCEPT ![t] =
                   [name |-> op[t].name,
                    ret |-> IF op[t].name = "pair"
                            THEN mock_pair_info(buf[t])
                            ELSE get_liq_token_addr(buf[t])]]
    /\ pc' = [pc EXCEPT ![t] = "idle"]
    /\ UNCHANGED <<cells, op, buf, issued>>

NextThreads ==
    /\ UNCHANGED vars
    /\ \E t \in Threads :
          \/ \E v \in SetArgs : SetLock(t, v)
          \/ SetStore1(t)
          \/ SetStore2(t)
          \/ Copy1(t)
          \/ Copy2(t)
          \/ SetReturn(t)
          \/ \E name \in {"get", "pair"} : ReadLock(t, name)
          \/ ReadReturn(t)

SpecThreads == Init /\ [][NextThreads]_<<vars, cvars>>

TypeOK ==
    /\ DOMAIN balances \subseteq ValidAddrs
    /\ \A a \in DOMAIN balances : balances[a] \in 0..MaxU128
    /\ TOKEN_ADDR \in TokenAddrs

(* ------------------------------ claims --------------------------------- *)

IsExecute(t) == call.op = "execute" /\ call.msg.type = t
IsQuery(t) == call.op = "query" /\ call.msg.type = t
LedgerUnchanged == balances = before.balances

\* C1: starting from the empty ledger, the stored balance of every address
\* (0 when it has no entry) is the sum of the amounts of the successful
\* Transfer calls that named it as recipient.
C1_BalanceIsSumOfTransfers ==
    \A a \in ValidAddrs : unwrap_or_default(balances, a) = credited[a]

\* A second successful Transfer to an address that an earlier Transfer had
\* already credited: the balance is N1 + N2 with both positive.
C1_Witness ==
    /\ IsExecute("transfer") /\ result.kind = "ok"
    /\ call.msg.amount > 0
    /\ call.msg.recipient \in DOMAIN before.balances
    /\ before.balances[call.msg.recipient] > 0
    /\ balances[call.msg.recipient]
         = before.balances[call.msg.recipient] + call.msg.amount

\* C2: a Pool{} query returns the encoded PoolResponse: reserves of 10000
\* "token" and 10000 "uusd" and total_share 1000.
C2_PoolReturnsReserves ==
    IsQuery("pool") =>
        /\ result.kind = "ok"
        /\ result.binary = to_binary(PoolResponse)

\* C3: a Balance{address} query returns balance 10 for every address in
\* every ledger state, and leaves the ledger as it was.
C3_BalanceQueryConstant ==
    IsQuery("balance") =>
        /\ result.kind = "ok"
        /\ result.binary = to_binary([balance |-> "10"])
        /\ LedgerUnchanged

\* The Balance query names an address whose stored balance is positive.
C3_Witness ==
    /\ IsQuery("balance")
    /\ call.msg.address \in DOMAIN balances
    /\ balances[call.msg.address] > 0

\* C4: once set_liq_token_addr(v) has run and until the next set, whatever
\* calls come in between, the stored value is v, get_liq_token_addr returns
\* v and a Pair{} query returns liquidity_token = v together with the fixed
\* asset identifiers and contract_addr "pair0000".
C4_SetThenGet ==
    \A v \in TokenAddrs :
        last_set = Some(v) =>
            /\ get_liq_token_addr(TOKEN_ADDR) = v
            /\ call.op = "get" => result.ret = v
            /\ IsQuery("pair") =>
                  /\ result.binary.json.liquidity_token = v
                  /\ result.binary.json.contract_addr = "pair0000"
                  /\ result.binary.json.asset_infos
                       = <<native_token("uusd"), native_token("uusd")>>

\* A Pair{} query after a set of a value other than the placeholder, with a
\* Transfer executed somewhere before the query.
C4_Witness ==
    /\ IsQuery("pair")
    /\ last_set = Some("addr1")
    /\ DOMAIN balances # {}

\* C5: a Transfer whose recipient fails address validation fails with
\* InvalidAddress and leaves the ledger exactly as it was.
C5_InvalidTransferFails ==
    (IsExecute("transfer") /\ call.msg.recipient \in InvalidAddrs) =>
        /\ result = Err("InvalidAddress")
        /\ LedgerUnchanged

\* A Transfer of a positive amount to an invalid recipient, on a ledger that
\* already has entries.
C5_Witness ==
    /\ IsExecute("transfer")
    /\ call.msg.recipient \in InvalidAddrs
    /\ call.msg.amount > 0
    /\ DOMAIN balances # {}

\* C6: Mint and Burn, for any recipient, amount and caller, succeed with an
\* empty Response and leave the ledger exactly as it was.
C6_MintBurnNoop ==
    (IsExecute("mint") \/ IsExecute("burn")) =>
        /\ result = Ok(Response_new)
        /\ LedgerUnchanged

\* A Mint of a positive amount to a valid recipient that already has an entry.
C6_Witness ==
    /\ IsExecute("mint")
    /\ call.msg.amount > 0
    /\ call.msg.recipient \in DOMAIN balances

\* C7: for every string P, a Receive whose payload is the encoding of
\* PingMsg{payload: P} succeeds, whatever its sender and amount, with the
\* single attribute action=pong, no message, a data that decodes to P, and
\* the ledger unchanged.
C7_ReceivePong ==
    \A P \in Strs :
        (IsExecute("receive")
         /\ call.msg.msg = to_binary_PingMsg([payload |-> P])) =>
            /\ result.kind = "ok"
            /\ result.response.attributes
                 = <<[key |-> "action", value |-> "pong"]>>
            /\ result.response.messages = <<>>
            /\ Cardinality(result.response.data) = 1
            /\ \A d \in result.response.data :
                  from_binary_String(d) = [ok |-> TRUE, val |-> P]
            /\ LedgerUnchanged

\* A Receive of a payload made of the two characters JSON escapes, with a
\* sender that is no valid address and the largest amount.
C7_Witness ==
    /\ IsExecute("receive")
    /\ call.msg.msg = to_binary_PingMsg([payload |-> <<BS, DQ>>])
    /\ call.msg.sender = "x"
    /\ call.msg.amount = MaxU128
    /\ result.kind = "ok"

\* C8: a Receive whose payload does not decode as a PingMsg fails with
\* DecodeError, returns no Response, and leaves the ledger and TOKEN_ADDR
\* unchanged.
C8_ReceiveBadPayload ==
    (IsExecute("receive") /\ call.msg.msg \notin PingBinaries) =>
        /\ result = Err("DecodeError")
        /\ LedgerUnchanged
        /\ TOKEN_ADDR = before.TOKEN_ADDR

\* A Receive of a PingMsg followed by trailing input, on a ledger with
\* entries and after TOKEN_ADDR was set.
C8_Witness ==
    /\ IsExecute("receive")
    /\ call.msg.msg = PingKey \o <<DQ, "a", DQ, "}", "}">>
    /\ DOMAIN balances # {}
    /\ TOKEN_ADDR # "string"

\* C9: Send{contract, amount, msg} from caller C succeeds with exactly one
\* outgoing message, an execute of `contract` carrying the Receive envelope
\* (sender = C, the same amount, the same payload), and the ledger unchanged.
C9_SendEnvelope ==
    IsExecute("send") =>
        /\ result.kind = "ok"
        /\ Len(result.response.messages) = 1
        /\ result.response.messages[1].wasm.execute.contract_addr
             = call.msg.contract
        /\ result.response.messages[1].wasm.execute.msg.json
             = [receive |-> [sender |-> call.sender,
                             amount |-> ToString(call.msg.amount),
                             msg |-> call.msg.msg]]
        /\ LedgerUnchanged

\* A Send of a positive amount to another address, from a caller that has a
\* ledger entry.
C9_Witness ==
    /\ IsExecute("send")
    /\ call.msg.amount > 0
    /\ call.msg.contract \in ValidAddrs \ {call.sender}
    /\ call.sender \in DOMAIN balances

\* C10: a successful Transfer raises the recipient's balance by exactly the
\* amount and leaves every other balance as it was; the caller is not
\* debited, also when it is the recipient.
C10_TransferCreditsOnlyRecipient ==
    (IsExecute("transfer") /\ result.kind = "ok") =>
        \A a \in ValidAddrs :
            unwrap_or_default(balances, a)
              = unwrap_or_default(before.balances, a)
                + (IF a = call.msg.recipient THEN call.msg.amount ELSE 0)

\* A successful Transfer of a positive amount from a caller that holds a
\* positive balance to another address.
C10_Witness ==
    /\ IsExecute("transfer") /\ result.kind = "ok"
    /\ call.msg.amount > 0
    /\ call.msg.recipient # call.sender
    /\ call.sender \in DOMAIN before.balances
    /\ before.balances[call.sender] >= call.msg.amount

\* All ledgers: the entries of any set of valid addresses.
Ledgers ==
    UNION {[D -> 0..MaxU128] : D \in SUBSET ValidAddrs}

\* C11: the addition in Transfer is overflow-checked: when the stored
\* balance plus the amount exceeds the largest Uint128 the call does not
\* succeed and stores nothing, and no Transfer leaves any stored balance
\* smaller than it was.
C11_TransferOverflowChecked ==
    IsExecute("transfer") =>
        /\ (call.msg.recipient \in ValidAddrs
            /\ unwrap_or_default(before.balances, call.msg.recipient)
                 + call.msg.amount > MaxU128)
              => (result.kind # "ok" /\ LedgerUnchanged)
        /\ \A a \in DOMAIN before.balances :
              a \in DOMAIN balances /\ balances[a] >= before.balances[a]

\* A Transfer whose sum exceeds the largest Uint128 although neither the
\* stored balance nor the amount is the largest value.
C11_Witness ==
    /\ IsExecute("transfer")
    /\ call.msg.recipient \in DOMAIN before.balances
    /\ before.balances[call.msg.recipient] < MaxU128
    /\ call.msg.amount < MaxU128
    /\ before.balances[call.msg.recipient] + call.msg.amount > MaxU128
    /\ result.kind = "panic"

\* C12: a successful Transfer from caller C returns exactly the attributes
\* action=transfer, from=C, to=recipient, amount=amount, in that order,
\* with no outgoing message and no data.
C12_TransferResponse ==
    (IsExecute("transfer") /\ result.kind = "ok") =>
        result.response =
            [attributes |->
                << [key |-> "action", value |-> "transfer"],
                   [key |-> "from", value |-> call.sender],
                   [key |-> "to", value |-> call.msg.recipient],
                   [key |-> "amount", value |-> ToString(call.msg.amount)] >>,
             messages |-> <<>>,
             data |-> {}]

\* A successful Transfer of a positive amount to an address other than the
\* caller.
C12_Witness ==
    /\ IsExecute("transfer") /\ result.kind = "ok"
    /\ call.msg.recipient # call.sender
    /\ call.msg.amount > 0

\* C13: the fixture value is always present: before any set it is the
\* placeholder "string", afterwards the argument of the most recent set, and
\* get_liq_token_addr returns exactly that.
C13_PlaceholderOrLastSet ==
    LET expected == IF last_set = {} THEN {"string"} ELSE last_set
    IN  /\ TOKEN_ADDR \in expected
        /\ get_liq_token_addr(TOKEN_ADDR) \in expected
        /\ call.op = "get" => result.ret \in expected

\* get_liq_token_addr called before any set, after a Transfer was executed.
C13_Witness ==
    /\ call.op = "get"
    /\ last_set = {}
    /\ result.ret = "string"
    /\ DOMAIN balances # {}

\* C14: instantiate succeeds for any caller in any state with an empty
\* Response and changes neither the ledger nor TOKEN_ADDR.
C14_InstantiateEmpty ==
    call.op = "instantiate" =>
        /\ result = [kind |-> "ok",
                     response |-> [attributes |-> <<>>, messages |-> <<>>,
                                   data |-> {}]]
        /\ LedgerUnchanged
        /\ TOKEN_ADDR = before.TOKEN_ADDR

\* instantiate on a ledger that holds a positive balance, after TOKEN_ADDR
\* was set to something other than the placeholder.
C14_Witness ==
    /\ call.op = "instantiate"
    /\ \E a \in DOMAIN balances : balances[a] > 0
    /\ TOKEN_ADDR # "string"

\* C16: a query answers the same on every ledger (for the same TOKEN_ADDR),
\* changes neither the ledger nor TOKEN_ADDR, and TokenInfo{} is always
\* MyToken / TOKEN / 6 decimals / total supply 100000000000000.
C16_QueriesLedgerBlind ==
    call.op = "query" =>
        /\ \A l \in Ledgers : query(l, TOKEN_ADDR, call.msg) = result.binary
        /\ LedgerUnchanged
        /\ TOKEN_ADDR = before.TOKEN_ADDR
        /\ call.msg.type = "token_info" =>
              result.binary.json =
                  [name |-> "MyToken", symbol |-> "TOKEN", decimals |-> 6,
                   total_supply |-> "100000000000000"]

\* A TokenInfo{} query on a ledger that holds a positive balance.
C16_Witness ==
    /\ IsQuery("token_info")
    /\ \E a \in DOMAIN balances : balances[a] > 0

\* C17: across every call no ledger entry is removed or decreased, an entry
\* appears only in a successful Transfer that names it as recipient, and
\* every address with an entry was named by some successful Transfer.
C17_EntriesOnlyGrow ==
    /\ \A a \in DOMAIN before.balances :
          a \in DOMAIN balances /\ balances[a] >= before.balances[a]
    /\ \A a \in DOMAIN balances \ DOMAIN before.balances :
          IsExecute("transfer") /\ result.kind = "ok" /\ call.msg.recipient = a
    /\ DOMAIN balances \subseteq recipients

\* A Burn by a caller that holds at least the burnt, positive amount, while
\* the other address has an entry of 0 created by a Transfer of 0.
C17_Witness ==
    /\ IsExecute("burn")
    /\ call.msg.amount > 0
    /\ call.sender \in DOMAIN balances
    /\ balances[call.sender] >= call.msg.amount
    /\ \E a \in DOMAIN balances : balances[a] = 0

\* The value a completed get or Pair query handed back.
observed(d) == IF d.name = "pair" THEN d.ret.liquidity_token ELSE d.ret

\* C15: with set, get and Pair queries running in several threads, a
\* writer excludes every other access, every set(v) returns its own v, and
\* every get or Pair query observes the placeholder or the whole argument of
\* some set call, never halves of two values.
C15_WritesExclusive ==
    /\ \A t \in lock.writer :
          /\ lock.writer = {t} /\ lock.readers = {}
          /\ \A u \in Threads \ {t} : pc[u] = "idle"
    /\ \A t \in Threads :
          /\ done[t].name = "set" => done[t].ret = whole(done[t].new_addr)
          /\ done[t].name \in {"get", "pair"} =>
                \E v \in {"string"} \cup issued : observed(done[t]) = whole(v)

\* One thread has completed set("addr1"), a second has completed a Pair
\* query that saw "addr2" set by a later call, and two threads hold the read
\* lock at the same time.
C15_Witness ==
    \E t, u \in Threads :
        /\ done[t] = [name |-> "set", new_addr |-> "addr1",
                      ret |-> whole("addr1")]
        /\ done[u].name = "pair"
        /\ done[u].ret.liquidity_token = whole("addr2")
        /\ Cardinality(lock.readers) = 2

====
